---- MODULE Spec2Model ----
(***************************************************************************)
(* Model of the chess server's engine-session and analysis subsystem:      *)
(*   stockfishConfig / stockfishService  (src/unnamed/part_001)            *)
(*   gameService                         (src/unnamed/part_002)            *)
(* Every API call is a coroutine on the single event loop: one action per  *)
(* synchronous run between two awaits.  An engine process either answers   *)
(* the awaited request or the request's timer fires.  A process that has   *)
(* been killed emits nothing more.                                         *)
(***************************************************************************)
EXTENDS Integers, Sequences, FiniteSets, TLC

VARIABLES
    procs,               \* every engine process spawned so far: pid -> [owner, alive]
    stockfishProcesses,  \* the registry Map gameId -> pid (0: no entry)
    activeGames,         \* the Map gameId -> in-memory game (NoGame: no entry)
    db,                  \* the persisted Game collection gameId -> document (NoDoc: none)
    calls                \* the API calls made so far, each a coroutine record

vars == <<procs, stockfishProcesses, activeGames, db, calls>>

(***************************************************************************)
(* Bounds of the model.                                                    *)
(***************************************************************************)
\* initializeEngine calls made directly on the engine service
MaxEngineCalls == 3

\* createGame / makeMove / terminateGame calls made on the game service
MaxGameCalls == 3

\* plies after which the rules engine declares the game drawn
MaxPly == 3

\* analyzeGame calls made
MaxAnalyzeCalls == 2

\* length of the recorded move list of a game given to analyzeGame
MaxMoves == 2

GameIds == {"g1", "g2"}

GameOrder == [g \in GameIds |-> IF g = "g1" THEN 1 ELSE 2]

\* difficulty levels the callers pass: the default and the two nearest levels
\* outside the table
LevelInputs == {0, 5, 11}

EngineCallIds == 1..MaxEngineCalls

GameCallIds == 1..MaxGameCalls

AnalyzeCallIds == 1..MaxAnalyzeCalls

\* difficulty levels passed to createGame: one the schema accepts, one it rejects
GameLevelInputs == {5, 11}

\* playerColor as the route accepts it
Colors == {"white", "black"}

(***************************************************************************)
(* stockfishConfig.js                                                      *)
(***************************************************************************)
stockfishDifficultyLevels ==
    [l \in 1..10 |->
        CASE l = 1  -> [skillLevel |-> 0,  depth |-> 1,  movetime |-> 1000, elo |-> 800,  contempt |-> -100]
          [] l = 2  -> [skillLevel |-> 2,  depth |-> 2,  movetime |-> 100,  elo |-> 1000, contempt |-> -75]
          [] l = 3  -> [skillLevel |-> 4,  depth |-> 3,  movetime |-> 150,  elo |-> 1200, contempt |-> -50]
          [] l = 4  -> [skillLevel |-> 6,  depth |-> 4,  movetime |-> 200,  elo |-> 1400, contempt |-> -25]
          [] l = 5  -> [skillLevel |-> 8,  depth |-> 5,  movetime |-> 250,  elo |-> 1600, contempt |-> 0]
          [] l = 6  -> [skillLevel |-> 10, depth |-> 6,  movetime |-> 300,  elo |-> 1800, contempt |-> 25]
          [] l = 7  -> [skillLevel |-> 12, depth |-> 8,  movetime |-> 400,  elo |-> 2000, contempt |-> 50]
          [] l = 8  -> [skillLevel |-> 14, depth |-> 10, movetime |-> 500,  elo |-> 2200, contempt |-> 75]
          [] l = 9  -> [skillLevel |-> 16, depth |-> 12, movetime |-> 750,  elo |-> 2400, contempt |-> 100]
          [] OTHER  -> [skillLevel |-> 20, depth |-> 15, movetime |-> 1000, elo |-> 3000, contempt |-> 100]]

\* `!config`: the lookup of a level that is no key of the table is undefined
HasConfig(level) == level \in DOMAIN stockfishDifficultyLevels

\* the value getStockfishOptionsForDifficulty returns when it does not throw
getStockfishOptionsForDifficulty(level) ==
    LET config == stockfishDifficultyLevels[level] IN
    [options |-> << <<"setoption name Skill Level value", config.skillLevel>>,
                    <<"setoption name UCI_LimitStrength value", "true">>,
                    <<"setoption name UCI_Elo value", config.elo>>,
                    <<"setoption name Contempt value", config.contempt>> >>,
     searchParams |-> <<"go depth", config.depth, "movetime", config.movetime>>]

ErrInvalidLevel == "Invalid difficulty level. Must be between 1 and 10."
ErrInitFailed == "Failed to initialize Stockfish engine."
ErrTimeoutUci == "Stockfish command timed out: uci"
ErrTimeoutIsReady == "Stockfish command timed out: isready"

(***************************************************************************)
(* Processes and the registry (stockfishService.js)                        *)
(***************************************************************************)
Pids == 1..Len(procs)

\* child_process.spawn: the new process gets the next pid
Spawn(ps, owner) == Append(ps, [owner |-> owner, alive |-> TRUE])

\* ChildProcess.kill()
Kill(ps, pid) == [ps EXCEPT ![pid].alive = FALSE]

LiveOf(g) == {p \in Pids : procs[p].owner = g /\ procs[p].alive}

NoGame == [present |-> FALSE, chess |-> [ply |-> 0, over |-> "none"],
           humanColor |-> "-", difficulty |-> 0]
NoDoc == [present |-> FALSE]

\* a call not made yet; the fields are the parameters and locals of the
\* service functions: gameId, difficulty, the process a call spawned or
\* searches on, the thrown error, playerColor, the submitted move, the
\* local Game document, and the moves the call pushed onto it
NoCall == [op |-> "none", pc |-> "idle", g |-> "-", level |-> 0,
           proc |-> 0, err |-> "", cause |-> "", killedOwn |-> FALSE,
           color |-> "-", move |-> "-", doc |-> NoDoc, pushed |-> <<>>,
           statusSet |-> FALSE,
           \* analyzeGame: the loop index (1-based), the replay board, the
           \* currentAnalysis, analysisResults, the number of analyzePosition
           \* calls made, the ply at which the replay broke (0: none), the
           \* returned document, and whether the call began after another
           \* analyzeGame call on the game had returned
           i |-> 0, chess |-> [ply |-> 0, over |-> "none"],
           cur |-> [evaluation |-> [type |-> "cp", value |-> 0], bestMove |-> "null"],
           entries |-> <<>>, inv |-> 0, brokeAt |-> 0, ret |-> NoDoc,
           later |-> FALSE]

\* (mutant) a terminate that keeps the entry
TerminateRegistryKeep(reg, g) == reg

\* terminateEngine(gameId): the registry and the process table afterwards
TerminateRegistry(reg, g) == [reg EXCEPT ![g] = 0]

\* (mutant) a terminate that drops the entry and kills nothing
TerminateProcsNoKill(ps, reg, g) == ps

TerminateProcs(ps, reg, g) == IF reg[g] # 0 THEN Kill(ps, reg[g]) ELSE ps

\* (mutant) a catch block that drops the entry and leaves the process running
CatchProcsNoKill(ps, reg, g) == ps

\* the catch block of initializeEngine: kill whatever the registry holds
\* for gameId and drop the entry
CatchProcs(ps, reg, g) == IF reg[g] # 0 THEN Kill(ps, reg[g]) ELSE ps

CatchRegistry(reg, g) == [reg EXCEPT ![g] = 0]

\* (mutant) a start that overwrites the entry without terminating the old session
StartProcsNoTerminate(ps, reg, g) == Spawn(ps, g)

\* the registry/process table after `if (has(gameId)) terminateEngine(gameId)`
\* and the spawn + set of initializeEngine
StartProcs(ps, reg, g) == Spawn(TerminateProcs(ps, reg, g), g)

StartRegistry(ps, reg, g) == [reg EXCEPT ![g] = Len(ps) + 1]

\* a call slot is taken in order
CanStart(c) ==
    /\ calls[c].op = "none"
    /\ IF c = 1 THEN TRUE ELSE calls[c - 1].op # "none"

\* initializeEngine up to its first await: terminate an old session,
\* spawn, register, send 'uci'
InitializeEngine(c, g, level) ==
    /\ CanStart(c)
    /\ procs' = StartProcs(procs, stockfishProcesses, g)
    /\ stockfishProcesses' = StartRegistry(procs, stockfishProcesses, g)
    /\ calls' = [calls EXCEPT ![c] = [NoCall EXCEPT !.op = "initializeEngine",
                                         !.pc = "uci", !.g = g, !.level = level,
                                         !.proc = Len(procs) + 1]]
    /\ UNCHANGED <<activeGames, db>>

\* the catch block: clean up, throw the generic error
InitFail(c, cause) ==
    /\ procs' = CatchProcs(procs, stockfishProcesses, calls[c].g)
    /\ stockfishProcesses' = CatchRegistry(stockfishProcesses, calls[c].g)
    /\ calls' = [calls EXCEPT ![c].pc = "failed", ![c].err = ErrInitFailed,
                              ![c].cause = cause,
                              ![c].killedOwn = procs[calls[c].proc].alive]
    /\ UNCHANGED <<activeGames, db>>

\* 'uciok' arrives: look the options up (throws into the catch block for a
\* level outside the table), write them, send 'isready'
UciOk(c) ==
    /\ calls[c].pc = "uci"
    /\ procs[calls[c].proc].alive
    /\ IF HasConfig(calls[c].level)
         THEN /\ calls' = [calls EXCEPT ![c].pc = "ready1"]
              /\ UNCHANGED <<procs, stockfishProcesses, activeGames, db>>
         ELSE InitFail(c, ErrInvalidLevel)

\* first 'readyok': write 'ucinewgame', send 'isready' again
ReadyOk1(c) ==
    /\ calls[c].pc = "ready1"
    /\ procs[calls[c].proc].alive
    /\ calls' = [calls EXCEPT ![c].pc = "ready2"]
    /\ UNCHANGED <<procs, stockfishProcesses, activeGames, db>>

\* second 'readyok': initializeEngine returns
ReadyOk2(c) ==
    /\ calls[c].op = "initializeEngine"
    /\ calls[c].pc = "ready2"
    /\ procs[calls[c].proc].alive
    /\ calls' = [calls EXCEPT ![c].pc = "done"]
    /\ UNCHANGED <<procs, stockfishProcesses, activeGames, db>>

\* the 10 s timer of sendCommandAndAwaitResponse fires first
HandshakeTimeout(c) ==
    /\ calls[c].pc \in {"uci", "ready1", "ready2"}
    /\ InitFail(c, IF calls[c].pc = "uci" THEN ErrTimeoutUci ELSE ErrTimeoutIsReady)

\* terminateEngine(gameId), called from outside
TerminateEngine(g) ==
    /\ procs' = TerminateProcs(procs, stockfishProcesses, g)
    /\ stockfishProcesses' = TerminateRegistry(stockfishProcesses, g)
    /\ UNCHANGED <<activeGames, db, calls>>

InitEngine ==
    /\ procs = <<>>
    /\ stockfishProcesses = [g \in GameIds |-> 0]
    /\ activeGames = [g \in GameIds |-> NoGame]
    /\ db = [g \in GameIds |-> NoDoc]
    /\ calls = [c \in EngineCallIds |-> NoCall]

NextEngine ==
    \/ \E c \in EngineCallIds, g \in GameIds, level \in LevelInputs : InitializeEngine(c, g, level)
    \/ \E c \in EngineCallIds : UciOk(c)
    \/ \E c \in EngineCallIds : ReadyOk1(c)
    \/ \E c \in EngineCallIds : ReadyOk2(c)
    \/ \E c \in EngineCallIds : HandshakeTimeout(c)
    \/ \E g \in GameIds : TerminateEngine(g)

\* the engine service driven directly by its callers
SpecEngine == InitEngine /\ [][NextEngine]_vars

(***************************************************************************)
(* The rules engine (chess.js), as gameService uses it: a position, the    *)
(* side to move, move(), isGameOver(), isCheckmate(), isDraw().  A position*)
(* is identified by its ply count and its game-over kind; a move is an     *)
(* ordinary legal move, a mating move, a drawing move or an illegal one.   *)
(***************************************************************************)
Moves == {"ok", "mate", "draw", "bad"}

InitialPosition == [ply |-> 0, over |-> "none"]

\* chess.turn()
Turn(pos) == IF pos.ply % 2 = 0 THEN "w" ELSE "b"

\* whether chess.move(m) succeeds on pos
Legal(pos, m) == pos.over = "none" /\ m # "bad"

\* the position after a legal chess.move(m)
ChessMove(pos, m) ==
    [ply |-> pos.ply + 1,
     over |-> CASE m = "mate" -> "checkmate"
                [] m = "draw" -> "draw"
                [] OTHER -> IF pos.ply + 1 >= MaxPly THEN "draw" ELSE "none"]

\* chess.isGameOver()
IsGameOver(pos) == pos.over # "none"

\* the result makeMove records for a finished game
GameResult(pos) ==
    CASE pos.over = "checkmate" -> IF Turn(pos) = "w" THEN "0-1" ELSE "1-0"
      [] pos.over = "draw" -> "1/2-1/2"
      [] OTHER -> "*"

(***************************************************************************)
(* gameService.js: createGame, makeMove, terminateGame                     *)
(***************************************************************************)
ErrGameNotFound == "Game not found or has ended."
ErrNotActive == "Game is not active or has ended."
ErrNotHumansTurn == "It's not the human's turn."
ErrInvalidMove == "Invalid move."
ErrAiInvalidMove == "AI generated an invalid move."
ErrEngineNotFound == "Stockfish engine not found for game."
ErrSearchTimeout == "Stockfish move calculation timed out."
ErrValidation == "Game validation failed: difficulty"

\* the side of the human player, from players.white === 'Human'
HumanSide(color) == IF color = "white" THEN "w" ELSE "b"

\* gameSchema: difficulty { min: 1, max: 10 }, checked by save()
SchemaAccepts(level) == level >= 1 /\ level <= 10

\* the document createGame builds
NewGameDoc(level, color) ==
    [present |-> TRUE, status |-> "playing", result |-> "*", moves |-> <<>>,
     fen |-> InitialPosition, humanColor |-> color, difficulty |-> level,
     analysis |-> <<>>]

\* Document.save(): $push of the pushed moves, $set of the modified paths
SaveDoc(stored, c) ==
    IF ~stored.present THEN stored
    ELSE [stored EXCEPT !.moves = stored.moves \o calls[c].pushed,
                        !.fen = calls[c].doc.fen,
                        !.status = IF calls[c].statusSet THEN calls[c].doc.status ELSE @,
                        !.result = IF calls[c].statusSet THEN calls[c].doc.result ELSE @]

\* a rejected call: its other locals are gone; the record keeps the error
\* and the moves the call had played on the board by then
FailAfter(c, err, pushed) ==
    [calls EXCEPT ![c] = [NoCall EXCEPT !.op = calls[c].op, !.pc = "failed",
                                        !.g = calls[c].g, !.err = err,
                                        !.pushed = pushed]]

Fail(c, err) == FailAfter(c, err, calls[c].pushed)

\* a call that returned: its locals are gone
Return(c) == [calls EXCEPT ![c] = [NoCall EXCEPT !.op = calls[c].op, !.pc = "done",
                                                 !.g = calls[c].g]]

\* uuidv4(): an id no game has had and no request has named, the ids being
\* handed out in order
FreshId(g) ==
    /\ ~db[g].present
    /\ \A c \in DOMAIN calls : calls[c].g # g
    /\ \A h \in GameIds : GameOrder[h] < GameOrder[g] => db[h].present \/ \E c \in DOMAIN calls : calls[c].g = h

\* a request names the id of a game that createGame has stored (the ids are
\* uuids: no caller knows one before)
Known(g) == db[g].present

\* createGame up to `await newGame.save()`
CreateGame(c, g, level, color) ==
    /\ CanStart(c)
    /\ FreshId(g)
    /\ calls' = [calls EXCEPT ![c] = [NoCall EXCEPT !.op = "createGame",
                     !.pc = "cg_save", !.g = g, !.level = level, !.color = color,
                     !.doc = NewGameDoc(level, color)]]
    /\ UNCHANGED <<procs, stockfishProcesses, activeGames, db>>

\* the first save settles: on a validation error createGame throws; else the
\* record is stored, the game is put in activeGames and initializeEngine
\* runs up to its first await
CreateGameSaved(c) ==
    /\ calls[c].op = "createGame"
    /\ calls[c].pc = "cg_save"
    /\ LET g == calls[c].g IN
       IF ~SchemaAccepts(calls[c].level)
         THEN /\ calls' = Fail(c, ErrValidation)
              /\ UNCHANGED <<procs, stockfishProcesses, activeGames, db>>
         ELSE /\ db' = [db EXCEPT ![g] = calls[c].doc]
              /\ activeGames' = [activeGames EXCEPT ![g] =
                     [present |-> TRUE, chess |-> InitialPosition,
                      humanColor |-> calls[c].color, difficulty |-> calls[c].level]]
              /\ procs' = StartProcs(procs, stockfishProcesses, g)
              /\ stockfishProcesses' = StartRegistry(procs, stockfishProcesses, g)
              /\ calls' = [calls EXCEPT ![c].pc = "uci", ![c].proc = Len(procs) + 1]

\* getBestMove up to its await: throws without a registry entry, else
\* writes 'position fen' and the search command to the registered process
SearchStarts(g) == stockfishProcesses[g] # 0

\* initializeEngine returned to createGame: the human plays white and the
\* call returns, or the computer is asked for the first move
CreateGameEngineReady(c) ==
    /\ calls[c].op = "createGame"
    /\ calls[c].pc = "ready2"
    /\ procs[calls[c].proc].alive
    /\ calls' = IF calls[c].color # "black" THEN Return(c)
                ELSE IF SearchStarts(calls[c].g)
                       THEN [calls EXCEPT ![c].pc = "cg_search",
                                          ![c].proc = stockfishProcesses[calls[c].g]]
                       ELSE Fail(c, ErrEngineNotFound)
    /\ UNCHANGED <<procs, stockfishProcesses, activeGames, db>>

\* the engine's bestmove for the first move.  createGame does not look at
\* what chess.move returns: an illegal move either throws (the call fails)
\* or returns null and is recorded all the same, by the library's version
CreateGameBestMove(c, m, throws) ==
    /\ calls[c].op = "createGame"
    /\ calls[c].pc = "cg_search"
    /\ procs[calls[c].proc].alive
    /\ LET g == calls[c].g
           pos == activeGames[g].chess
       IN  IF Legal(pos, m)
             THEN /\ activeGames' = [activeGames EXCEPT ![g].chess = ChessMove(pos, m)]
                  /\ calls' = [calls EXCEPT ![c].pc = "cg_save2",
                                  ![c].pushed = Append(@, m),
                                  ![c].doc.moves = Append(@, m),
                                  ![c].doc.fen = ChessMove(pos, m)]
             ELSE IF throws
             THEN /\ calls' = Fail(c, ErrInvalidMove)
                  /\ UNCHANGED activeGames
             ELSE /\ calls' = [calls EXCEPT ![c].pc = "cg_save2",
                                  ![c].pushed = Append(@, m),
                                  ![c].doc.moves = Append(@, m)]
                  /\ UNCHANGED activeGames
    /\ UNCHANGED <<procs, stockfishProcesses, db>>

\* (mutant) a search timeout that tears the session down
SearchTimeoutKills(c) ==
    /\ calls[c].pc \in {"cg_search", "mm_search"}
    /\ calls' = Fail(c, ErrSearchTimeout)
    /\ procs' = TerminateProcs(procs, stockfishProcesses, calls[c].g)
    /\ stockfishProcesses' = TerminateRegistry(stockfishProcesses, calls[c].g)
    /\ UNCHANGED <<activeGames, db>>

\* the 15 s timer and its 0.5 s grace window pass without a bestmove
SearchTimeout(c) ==
    /\ calls[c].pc \in {"cg_search", "mm_search"}
    /\ calls' = Fail(c, ErrSearchTimeout)
    /\ UNCHANGED <<procs, stockfishProcesses, activeGames, db>>

\* the second save of createGame settles; the call returns
CreateGameSaved2(c) ==
    /\ calls[c].op = "createGame"
    /\ calls[c].pc = "cg_save2"
    /\ db' = [db EXCEPT ![calls[c].g] = SaveDoc(@, c)]
    /\ calls' = Return(c)
    /\ UNCHANGED <<procs, stockfishProcesses, activeGames>>

\* makeMove up to `await Game.findOne`
MakeMove(c, g, move) ==
    /\ CanStart(c)
    /\ Known(g)
    /\ calls' = [calls EXCEPT ![c] =
                   IF activeGames[g].present
                     THEN [NoCall EXCEPT !.op = "makeMove", !.pc = "mm_find",
                                         !.g = g, !.move = move]
                     ELSE [NoCall EXCEPT !.op = "makeMove", !.pc = "failed",
                                         !.g = g, !.err = ErrGameNotFound]]
    /\ UNCHANGED <<procs, stockfishProcesses, activeGames, db>>

\* the local document after the call pushed moves ms and reached pos: fen
\* and moves always, status and result when the game is over
DocAfter(doc, pos, ms) ==
    [doc EXCEPT !.moves = @ \o ms,
                !.fen = pos,
                !.status = IF IsGameOver(pos) THEN "finished" ELSE @,
                !.result = IF IsGameOver(pos) THEN GameResult(pos) ELSE @]

\* findOne settles: the checks, the human move, and then either the end of
\* the game (engine terminated, game out of activeGames) or the start of
\* the search for the computer's reply
MakeMoveFound(c) ==
    /\ calls[c].op = "makeMove"
    /\ calls[c].pc = "mm_find"
    /\ LET g == calls[c].g
           gameDoc == db[g]
           pos == activeGames[g].chess
           m == calls[c].move
           after == ChessMove(pos, m)
       IN  IF ~gameDoc.present \/ gameDoc.status # "playing"
             THEN /\ calls' = Fail(c, ErrNotActive)
                  /\ UNCHANGED <<procs, stockfishProcesses, activeGames>>
           ELSE IF HumanSide(activeGames[g].humanColor) # Turn(pos)
             THEN /\ calls' = Fail(c, ErrNotHumansTurn)
                  /\ UNCHANGED <<procs, stockfishProcesses, activeGames>>
           ELSE IF ~Legal(pos, m)
             THEN /\ calls' = Fail(c, ErrInvalidMove)
                  /\ UNCHANGED <<procs, stockfishProcesses, activeGames>>
           ELSE IF IsGameOver(after)
             THEN /\ calls' = [calls EXCEPT ![c].pc = "mm_save",
                                  ![c].doc = DocAfter(gameDoc, after, <<m>>),
                                  ![c].pushed = <<m>>,
                                  ![c].statusSet = TRUE]
                  /\ procs' = TerminateProcs(procs, stockfishProcesses, g)
                  /\ stockfishProcesses' = TerminateRegistry(stockfishProcesses, g)
                  /\ activeGames' = [activeGames EXCEPT ![g].chess = after,
                                                        ![g].present = FALSE]
           ELSE /\ calls' = IF SearchStarts(g)
                              THEN [calls EXCEPT ![c].pc = "mm_search",
                                       ![c].proc = stockfishProcesses[g],
                                       ![c].doc = DocAfter(gameDoc, after, <<m>>),
                                       ![c].pushed = <<m>>]
                              ELSE FailAfter(c, ErrEngineNotFound, <<m>>)
                /\ activeGames' = [activeGames EXCEPT ![g].chess = after]
                /\ UNCHANGED <<procs, stockfishProcesses>>
    /\ UNCHANGED db

\* the engine's bestmove for the reply: an illegal one aborts the turn; a
\* legal one is played, and ends the game if the position is game-over
MakeMoveBestMove(c, m) ==
    /\ calls[c].op = "makeMove"
    /\ calls[c].pc = "mm_search"
    /\ procs[calls[c].proc].alive
    /\ LET g == calls[c].g
           pos == activeGames[g].chess
           after == ChessMove(pos, m)
       IN  IF ~Legal(pos, m)
             THEN /\ calls' = Fail(c, ErrAiInvalidMove)
                  /\ UNCHANGED <<procs, stockfishProcesses, activeGames>>
           ELSE IF IsGameOver(after)
             THEN /\ calls' = [calls EXCEPT ![c].pc = "mm_save",
                                  ![c].doc = DocAfter(@, after, <<m>>),
                                  ![c].pushed = Append(@, m),
                                  ![c].statusSet = TRUE]
                  /\ procs' = TerminateProcs(procs, stockfishProcesses, g)
                  /\ stockfishProcesses' = TerminateRegistry(stockfishProcesses, g)
                  /\ activeGames' = [activeGames EXCEPT ![g].chess = after,
                                                        ![g].present = FALSE]
           ELSE /\ calls' = [calls EXCEPT ![c].pc = "mm_save",
                                  ![c].doc = DocAfter(@, after, <<m>>),
                                  ![c].pushed = Append(@, m)]
                /\ activeGames' = [activeGames EXCEPT ![g].chess = after]
                /\ UNCHANGED <<procs, stockfishProcesses>>
    /\ UNCHANGED db

\* gameDoc.save() settles; the update is broadcast and the call returns
MakeMoveSaved(c) ==
    /\ calls[c].op = "makeMove"
    /\ calls[c].pc = "mm_save"
    /\ db' = [db EXCEPT ![calls[c].g] = SaveDoc(@, c)]
    /\ calls' = Return(c)
    /\ UNCHANGED <<procs, stockfishProcesses, activeGames>>

\* terminateGame up to `await Game.updateOne`
TerminateGame(c, g) ==
    /\ CanStart(c)
    /\ Known(g)
    /\ procs' = TerminateProcs(procs, stockfishProcesses, g)
    /\ stockfishProcesses' = TerminateRegistry(stockfishProcesses, g)
    /\ activeGames' = [activeGames EXCEPT ![g].present = FALSE]
    /\ calls' = [calls EXCEPT ![c] = [NoCall EXCEPT !.op = "terminateGame",
                                         !.pc = "tg_update", !.g = g]]
    /\ UNCHANGED db

\* updateOne settles: a stored record of the game becomes 'terminated'
TerminateGameUpdated(c) ==
    /\ calls[c].op = "terminateGame"
    /\ calls[c].pc = "tg_update"
    /\ db' = [db EXCEPT ![calls[c].g] =
                 IF @.present THEN [@ EXCEPT !.status = "terminated", !.result = "*"]
                 ELSE @]
    /\ calls' = Return(c)
    /\ UNCHANGED <<procs, stockfishProcesses, activeGames>>

Init ==
    /\ procs = <<>>
    /\ stockfishProcesses = [g \in GameIds |-> 0]
    /\ activeGames = [g \in GameIds |-> NoGame]
    /\ db = [g \in GameIds |-> NoDoc]
    /\ calls = [c \in GameCallIds |-> NoCall]

Next ==
    \/ \E c \in GameCallIds, g \in GameIds, level \in GameLevelInputs, color \in Colors :
          CreateGame(c, g, level, color)
    \/ \E c \in GameCallIds : CreateGameSaved(c)
    \/ \E c \in GameCallIds : UciOk(c)
    \/ \E c \in GameCallIds : ReadyOk1(c)
    \/ \E c \in GameCallIds : HandshakeTimeout(c)
    \/ \E c \in GameCallIds : CreateGameEngineReady(c)
    \/ \E c \in GameCallIds, m \in Moves, throws \in BOOLEAN : CreateGameBestMove(c, m, throws)
    \/ \E c \in GameCallIds : CreateGameSaved2(c)
    \/ \E c \in GameCallIds : SearchTimeout(c)
    \/ \E c \in GameCallIds, g \in GameIds, m \in Moves : MakeMove(c, g, m)
    \/ \E c \in GameCallIds : MakeMoveFound(c)
    \/ \E c \in GameCallIds, m \in Moves : MakeMoveBestMove(c, m)
    \/ \E c \in GameCallIds : MakeMoveSaved(c)
    \/ \E c \in GameCallIds, g \in GameIds : TerminateGame(c, g)
    \/ \E c \in GameCallIds : TerminateGameUpdated(c)

\* the game service driven by its routes
Spec == Init /\ [][Next]_vars

(***************************************************************************)
(* gameService.js: analyzeGame, with stockfishService.analyzePosition      *)
(***************************************************************************)
ErrAnalyzeNotFound == "Game not found."
ErrNotFinished == "Game is not finished and cannot be analyzed."
ErrAnalysisTimeout == "Stockfish analysis timed out."

MATE_VALUE == 10000
MISTAKE_THRESHOLD == 150
BLUNDER_THRESHOLD == 300

\* Math.sign, Math.abs
Sign(x) == IF x > 0 THEN 1 ELSE IF x < 0 THEN -1 ELSE 0

Abs(x) == IF x < 0 THEN -x ELSE x

\* the evaluation as one integer, positive for the side to move
getCpValue(evaluation) ==
    IF evaluation.type = "cp" THEN evaluation.value
    ELSE IF evaluation.type = "mate"
      THEN IF evaluation.value = 0 THEN 0
           ELSE Sign(evaluation.value) * (MATE_VALUE - Abs(evaluation.value))
    ELSE 0

\* the mover's result after the move: the flipped evaluation of the
\* opponent's position, or the full mate value for a mate on the board
cpActualResult(evalAfter) ==
    IF evalAfter.type = "mate" /\ evalAfter.value = 0 THEN 10000
    ELSE -1 * getCpValue(evalAfter)

evalDiff(evalStart, evalAfter) == getCpValue(evalStart) - cpActualResult(evalAfter)

\* (mutant) the thresholds taken as inclusive
QualityInclusive(isHumanMove, evalStart, evalAfter) ==
    IF ~isHumanMove
      THEN [isMistake |-> FALSE, isBlunder |-> FALSE, comment |-> ""]
    ELSE IF evalDiff(evalStart, evalAfter) >= BLUNDER_THRESHOLD
      THEN [isMistake |-> FALSE, isBlunder |-> TRUE, comment |-> "Blunder"]
    ELSE IF evalDiff(evalStart, evalAfter) >= MISTAKE_THRESHOLD
      THEN [isMistake |-> TRUE, isBlunder |-> FALSE, comment |-> "Mistake"]
    ELSE IF evalStart.type = "mate" /\ evalAfter.type # "mate"
      THEN [isMistake |-> TRUE, isBlunder |-> FALSE, comment |-> "Missed Mate"]
    ELSE [isMistake |-> FALSE, isBlunder |-> FALSE, comment |-> ""]

\* the move-quality flags and comment of a ply
Quality(isHumanMove, evalStart, evalAfter) ==
    IF ~isHumanMove
      THEN [isMistake |-> FALSE, isBlunder |-> FALSE, comment |-> ""]
    ELSE IF evalDiff(evalStart, evalAfter) > BLUNDER_THRESHOLD
      THEN [isMistake |-> FALSE, isBlunder |-> TRUE, comment |-> "Blunder"]
    ELSE IF evalDiff(evalStart, evalAfter) > MISTAKE_THRESHOLD
      THEN [isMistake |-> TRUE, isBlunder |-> FALSE, comment |-> "Mistake"]
    ELSE IF evalStart.type = "mate" /\ evalAfter.type # "mate"
      THEN [isMistake |-> TRUE, isBlunder |-> FALSE, comment |-> "Missed Mate"]
    ELSE [isMistake |-> FALSE, isBlunder |-> FALSE, comment |-> ""]

\* whether the ply played from `before` is the human's
IsHumanMove(before, humanColor) == Turn(before) = HumanSide(humanColor)

\* (mutant) an entry that records the evaluation after the move
AnalysisEntryPost(i, before, after, move, humanColor, current, evalAfter) ==
    LET q == Quality(IsHumanMove(before, humanColor), current.evaluation, evalAfter) IN
    [moveNumber |-> ((i - 1) \div 2) + 1,
     color |-> IF Turn(before) = "w" THEN "white" ELSE "black",
     move |-> move,
     fen |-> after,
     evaluation |-> evalAfter,
     bestMove |-> current.bestMove,
     isMistake |-> q.isMistake,
     isBlunder |-> q.isBlunder,
     comment |-> q.comment]

\* the entry pushed for ply i (1-based) played from `before` to `after`
AnalysisEntry(i, before, after, move, humanColor, current, evalAfter) ==
    LET q == Quality(IsHumanMove(before, humanColor), current.evaluation, evalAfter) IN
    [moveNumber |-> ((i - 1) \div 2) + 1,
     color |-> IF Turn(before) = "w" THEN "white" ELSE "black",
     move |-> move,
     fen |-> after,
     evaluation |-> current.evaluation,
     bestMove |-> current.bestMove,
     isMistake |-> q.isMistake,
     isBlunder |-> q.isBlunder,
     comment |-> q.comment]

\* the evaluation written for a game-over position instead of asking the engine
FinalEvaluation(pos) ==
    IF pos.over = "checkmate" THEN [type |-> "mate", value |-> 0]
    ELSE [type |-> "cp", value |-> 0]

\* The for loop of analyzeGame run from ply i on board `chess` until it
\* awaits analyzePosition for the position after ply i ("analyze": chess is
\* then that position), or leaves the loop ("persist"), at its end or by the
\* break on a move that cannot be replayed (brokeAt).
RECURSIVE AnalysisLoop(_, _, _, _, _, _)
AnalysisLoop(moves, humanColor, i, chess, current, entries) ==
    IF i > Len(moves)
      THEN [next |-> "persist", i |-> i, chess |-> chess, cur |-> current,
            entries |-> entries, brokeAt |-> 0]
    ELSE IF ~Legal(chess, moves[i])
      THEN [next |-> "persist", i |-> i, chess |-> chess, cur |-> current,
            entries |-> entries, brokeAt |-> i]
    ELSE LET after == ChessMove(chess, moves[i]) IN
         IF IsGameOver(after)
           THEN AnalysisLoop(moves, humanColor, i + 1, after,
                    [evaluation |-> FinalEvaluation(after), bestMove |-> "null"],
                    Append(entries,
                           AnalysisEntry(i, chess, after, moves[i], humanColor,
                                         current, FinalEvaluation(after))))
           ELSE [next |-> "analyze", i |-> i, chess |-> after, cur |-> current,
                 entries |-> entries, brokeAt |-> 0]

\* the position before the last move played on a replay board (the plies
\* of a replay are numbered by the board)
Before(pos) == [ply |-> pos.ply - 1, over |-> "none"]

\* analyzeGame has thrown: the record keeps the error, the number of
\* analyzePosition calls made and whether the call came after another
AnalyzeFail(c, err) ==
    [calls EXCEPT ![c] = [NoCall EXCEPT !.op = "analyzeGame", !.pc = "failed",
                                        !.g = calls[c].g, !.err = err,
                                        !.inv = calls[c].inv,
                                        !.later = calls[c].later]]

\* analyzeGame has returned gameDoc: the record keeps it, the number of
\* analyzePosition calls made, the ply the replay broke at, and `later`
AnalyzeReturn(c, gameDoc) ==
    [calls EXCEPT ![c] = [NoCall EXCEPT !.op = "analyzeGame", !.pc = "done",
                                        !.g = calls[c].g, !.ret = gameDoc,
                                        !.inv = calls[c].inv,
                                        !.brokeAt = calls[c].brokeAt,
                                        !.later = calls[c].later]]

\* (mutant) a check that lets a game through while it is being analyzed
StatusRejectedLax(gameDoc) == gameDoc.status \notin {"finished", "analyzing"}

\* `gameDoc.status !== 'finished'`
StatusRejected(gameDoc) == gameDoc.status # "finished"

\* `gameDoc.analysis && gameDoc.analysis.length > 0`
AlreadyAnalyzed(gameDoc) == Len(gameDoc.analysis) > 0

Settled(c) == calls[c].pc \in {"idle", "done", "failed"}

\* analyzeGame up to `await Game.findOne`.  The calls are made one after
\* the other: a call begins when the one before it has settled
AnalyzeGame(c, g) ==
    /\ CanStart(c)
    /\ \A d \in DOMAIN calls : Settled(d)
    /\ calls' = [calls EXCEPT ![c] = [NoCall EXCEPT !.op = "analyzeGame",
                     !.pc = "ag_find", !.g = g,
                     !.later = \E d \in DOMAIN calls :
                                  /\ calls[d].op = "analyzeGame"
                                  /\ calls[d].g = g
                                  /\ calls[d].pc = "done"]]
    /\ UNCHANGED <<procs, stockfishProcesses, activeGames, db>>

\* findOne settles: the game is missing or not finished (throw), already
\* analyzed (return it), or is marked 'analyzing' and saved
AnalyzeFound(c) ==
    /\ calls[c].op = "analyzeGame"
    /\ calls[c].pc = "ag_find"
    /\ LET gameDoc == db[calls[c].g] IN
       calls' = IF ~gameDoc.present
                  THEN AnalyzeFail(c, ErrAnalyzeNotFound)
                ELSE IF StatusRejected(gameDoc)
                  THEN AnalyzeFail(c, ErrNotFinished)
                ELSE IF AlreadyAnalyzed(gameDoc)
                  THEN AnalyzeReturn(c, gameDoc)
                ELSE [calls EXCEPT ![c].pc = "ag_save",
                                   ![c].doc = [gameDoc EXCEPT !.status = "analyzing"]]
    /\ UNCHANGED <<procs, stockfishProcesses, activeGames, db>>

\* analyzePosition up to its first await: spawn a transient process, send 'uci'
StartAnalyzePosition(cs, c) ==
    [cs EXCEPT ![c].pc = "ap_uci", ![c].proc = Len(procs) + 1, ![c].inv = @ + 1]

\* the save of status 'analyzing' settles; the baseline analysis of the
\* initial position starts
AnalyzeSaved(c) ==
    /\ calls[c].op = "analyzeGame"
    /\ calls[c].pc = "ag_save"
    /\ db' = [db EXCEPT ![calls[c].g].status = "analyzing"]
    /\ procs' = Spawn(procs, "analysis")
    /\ calls' = StartAnalyzePosition([calls EXCEPT ![c].chess = InitialPosition,
                                                   ![c].entries = <<>>, ![c].i = 0], c)
    /\ UNCHANGED <<stockfishProcesses, activeGames>>

\* analyzePosition: 'uciok' arrives, 'isready' is sent
AnalysisUciOk(c) ==
    /\ calls[c].pc = "ap_uci"
    /\ procs[calls[c].proc].alive
    /\ calls' = [calls EXCEPT ![c].pc = "ap_ready"]
    /\ UNCHANGED <<procs, stockfishProcesses, activeGames, db>>

\* analyzePosition: 'readyok' arrives, the position and 'go depth 20' are written
AnalysisReadyOk(c) ==
    /\ calls[c].pc = "ap_ready"
    /\ procs[calls[c].proc].alive
    /\ calls' = [calls EXCEPT ![c].pc = "ap_go"]
    /\ UNCHANGED <<procs, stockfishProcesses, activeGames, db>>

\* analyzePosition: a handshake request times out; the catch block kills the
\* process and rethrows, and analyzeGame rejects
AnalysisHandshakeTimeout(c) ==
    /\ calls[c].pc \in {"ap_uci", "ap_ready"}
    /\ procs' = Kill(procs, calls[c].proc)
    /\ calls' = AnalyzeFail(c, IF calls[c].pc = "ap_uci" THEN ErrTimeoutUci
                                ELSE ErrTimeoutIsReady)
    /\ UNCHANGED <<stockfishProcesses, activeGames, db>>

\* (mutant) a 30 s timeout that rejects and leaves the process running
AnalysisSearchTimeoutNoKill(c) ==
    /\ calls[c].pc = "ap_go"
    /\ calls' = AnalyzeFail(c, ErrAnalysisTimeout)
    /\ UNCHANGED <<procs, stockfishProcesses, activeGames, db>>

\* analyzePosition: the 30 s timer fires; the process is killed and
\* analyzeGame rejects
AnalysisSearchTimeout(c) ==
    /\ calls[c].pc = "ap_go"
    /\ procs' = Kill(procs, calls[c].proc)
    /\ calls' = AnalyzeFail(c, ErrAnalysisTimeout)
    /\ UNCHANGED <<stockfishProcesses, activeGames, db>>

\* the call record after the loop ran to r: the next analyzePosition call,
\* or the findByIdAndUpdate
AfterLoop(c, r) ==
    LET cs == [calls EXCEPT ![c].i = r.i, ![c].chess = r.chess, ![c].cur = r.cur,
                            ![c].entries = r.entries, ![c].brokeAt = r.brokeAt]
    IN  IF r.next = "analyze" THEN StartAnalyzePosition(cs, c)
        ELSE [cs EXCEPT ![c].pc = "ag_update"]

\* analyzePosition: the bestmove line arrives; the transient process is
\* killed and the analysis resolves.  analyzeGame takes it as the baseline
\* (i = 0) or as the result of ply i, pushes that ply's entry, and runs on
AnalysisBestMove(c, evaluation, bestMove) ==
    /\ calls[c].pc = "ap_go"
    /\ procs[calls[c].proc].alive
    /\ LET me == calls[c]
           nextAnalysis == [evaluation |-> evaluation, bestMove |-> bestMove]
           entries == IF me.i = 0 THEN me.entries
                      ELSE Append(me.entries,
                                  AnalysisEntry(me.i, Before(me.chess), me.chess,
                                                me.doc.moves[me.i], me.doc.humanColor,
                                                me.cur, evaluation))
           r == AnalysisLoop(me.doc.moves, me.doc.humanColor, me.i + 1, me.chess,
                             nextAnalysis, entries)
       IN  /\ calls' = AfterLoop(c, r)
           /\ procs' = IF r.next = "analyze"
                         THEN Spawn(Kill(procs, me.proc), "analysis")
                         ELSE Kill(procs, me.proc)
    /\ UNCHANGED <<stockfishProcesses, activeGames, db>>

\* (mutant) an update that stores the entries and leaves the status alone
PersistAnalysisKeepStatus(stored, entries) == [stored EXCEPT !.analysis = entries]

\* findByIdAndUpdate: $set of analysis and status
PersistAnalysis(stored, entries) ==
    [stored EXCEPT !.analysis = entries, !.status = "finished"]

\* the update settles; findById is issued
AnalyzeUpdated(c) ==
    /\ calls[c].op = "analyzeGame"
    /\ calls[c].pc = "ag_update"
    /\ db' = [db EXCEPT ![calls[c].g] = PersistAnalysis(@, calls[c].entries)]
    /\ calls' = [calls EXCEPT ![c].pc = "ag_read"]
    /\ UNCHANGED <<procs, stockfishProcesses, activeGames>>

\* findById settles; analyzeGame returns the document
AnalyzeRead(c) ==
    /\ calls[c].op = "analyzeGame"
    /\ calls[c].pc = "ag_read"
    /\ calls' = AnalyzeReturn(c, db[calls[c].g])
    /\ UNCHANGED <<procs, stockfishProcesses, activeGames, db>>

\* what the engine may report for a position
EvaluationInputs ==
    {[type |-> "cp", value |-> 0], [type |-> "cp", value |-> -400],
     [type |-> "mate", value |-> 2]}

BestMoveInputs == {"e2e4"}

RECURSIVE Replay(_, _)
\* the board after replaying moves from pos, stopping where a move fails
Replay(pos, moves) ==
    IF moves = <<>> \/ ~Legal(pos, Head(moves)) THEN pos
    ELSE Replay(ChessMove(pos, Head(moves)), Tail(moves))

MoveLists == UNION {[1..n -> Moves] : n \in 0..MaxMoves}

\* the stored games analyzeGame may be given: any status, either colour for
\* the human, any recorded move list (also an empty one, and one the rules
\* engine cannot replay), not analyzed yet
StoredGames ==
    {[present |-> TRUE, status |-> st, result |-> "*", moves |-> ms,
      fen |-> Replay(InitialPosition, ms), humanColor |-> color, difficulty |-> 5,
      analysis |-> <<>>] :
        st \in {"finished", "playing", "analyzing", "terminated"},
        ms \in MoveLists, color \in Colors}

\* one stored game g1; no game g2
InitAnalyze ==
    /\ procs = <<>>
    /\ stockfishProcesses = [g \in GameIds |-> 0]
    /\ activeGames = [g \in GameIds |-> NoGame]
    /\ \E doc \in StoredGames : db = [g \in GameIds |-> IF g = "g1" THEN doc ELSE NoDoc]
    /\ calls = [c \in AnalyzeCallIds |-> NoCall]

NextAnalyze ==
    \/ \E c \in AnalyzeCallIds, g \in GameIds : AnalyzeGame(c, g)
    \/ \E c \in AnalyzeCallIds : AnalyzeFound(c)
    \/ \E c \in AnalyzeCallIds : AnalyzeSaved(c)
    \/ \E c \in AnalyzeCallIds : AnalysisUciOk(c)
    \/ \E c \in AnalyzeCallIds : AnalysisReadyOk(c)
    \/ \E c \in AnalyzeCallIds : AnalysisHandshakeTimeout(c)
    \/ \E c \in AnalyzeCallIds : AnalysisSearchTimeout(c)
    \/ \E c \in AnalyzeCallIds, evaluation \in EvaluationInputs, bestMove \in BestMoveInputs :
          AnalysisBestMove(c, evaluation, bestMove)
    \/ \E c \in AnalyzeCallIds : AnalyzeUpdated(c)
    \/ \E c \in AnalyzeCallIds : AnalyzeRead(c)

\* analyzeGame driven by its route on a stored game
SpecAnalyze == InitAnalyze /\ [][NextAnalyze]_vars

\* analyzeGame up to `await Game.findOne`, begun whenever a request comes
\* in: the route awaits nothing before it, so a call may begin while
\* another call on the same game is in progress
AnalyzeGameOverlapping(c, g) ==
    /\ CanStart(c)
    /\ calls' = [calls EXCEPT ![c] = [NoCall EXCEPT !.op = "analyzeGame",
                     !.pc = "ag_find", !.g = g,
                     !.later = \E d \in DOMAIN calls :
                                  /\ calls[d].op = "analyzeGame"
                                  /\ calls[d].g = g
                                  /\ calls[d].pc = "done"]]
    /\ UNCHANGED <<procs, stockfishProcesses, activeGames, db>>

NextAnalyzeOverlap ==
    \/ NextAnalyze
    \/ \E c \in AnalyzeCallIds, g \in GameIds : AnalyzeGameOverlapping(c, g)

\* analyzeGame driven by its route, the requests overlapping
SpecAnalyzeOverlap == InitAnalyze /\ [][NextAnalyzeOverlap]_vars

(***************************************************************************)
(* stockfishService.js: the requests on one engine session, chunk by       *)
(* chunk.  The session is the one of game g1; its requests are those of    *)
(* initializeEngine (uci, isready, isready) and then of getBestMove, each  *)
(* sent when the one before it has settled.  The engine answers the        *)
(* commands in order and its output reaches the listeners in chunks cut    *)
(* anywhere.  A text is a sequence of characters.                          *)
(***************************************************************************)
\* requests made on the session
MaxRequests == 4

RequestIds == 1..MaxRequests

\* the command of the r-th request of a session
CommandOf(r) == IF r = 1 THEN "uci" ELSE IF r <= 3 THEN "isready" ELSE "go"

\* expectedResponseEnd of the handshake commands ('uciok', 'readyok') and
\* the `bestmove` line of a search, as texts
ExpectedOf(command) ==
    CASE command = "uci" -> <<"u", "o">>
      [] command = "isready" -> <<"r", "k">>
      [] OTHER -> <<"b", "m">>

\* what the engine prints in answer to a command: lines before the
\* terminator for uci and go, the terminator line
OutputOf(command) ==
    CASE command = "uci" -> <<"i", "\n", "u", "o", "\n">>
      [] command = "isready" -> <<"r", "k", "\n">>
      [] OTHER -> <<"i", "\n", "b", "m", "\n">>

\* String.prototype.includes
Includes(text, part) ==
    \E k \in 1..(Len(text) - Len(part) + 1) : SubSeq(text, k, k + Len(part) - 1) = part

RECURSIVE Trim(_)
\* String.prototype.trim
Trim(text) ==
    IF text = <<>> THEN text
    ELSE IF Head(text) = "\n" THEN Trim(Tail(text))
    ELSE IF text[Len(text)] = "\n" THEN Trim(SubSeq(text, 1, Len(text) - 1))
    ELSE text

\* a request not made yet.  pos: how much of its answer the engine has
\* printed; attached: its dataListener is on stdout; graceTimer: the 0.5 s
\* timer is pending; raw: the chunks its listener got while it was pending;
\* heard: the requests whose answers its listener was called with
NoRequest == [op |-> "none", pc |-> "idle", command |-> "-", pos |-> 0,
              responseBuffer |-> <<>>, result |-> <<>>, attached |-> FALSE,
              graceTimer |-> FALSE, raw |-> <<>>, heard |-> {}]

Pending(q) == q.pc \in {"waiting", "searching", "grace"}

\* `dataString.includes(expectedResponseEnd)`, dataString being the chunk
HandshakeHit(q, chunk) == Includes(Trim(chunk), ExpectedOf(q.command))

\* dataListener of sendCommandAndAwaitResponse called with a chunk of the
\* answer to request `from`.  removeListener is called on engineProcess,
\* where the listener never was: it stays on stdout (what it appends to
\* its buffer after its request has settled is left out)
HearHandshake(q, chunk, from) ==
    LET buffer == q.responseBuffer \o Trim(chunk) \o <<"\n">> IN
    IF q.pc # "waiting" THEN [q EXCEPT !.heard = @ \cup {from}]
    ELSE [q EXCEPT !.heard = @ \cup {from},
                   !.raw = @ \o chunk,
                   !.responseBuffer = buffer,
                   !.pc = IF HandshakeHit(q, chunk) THEN "resolved" ELSE @,
                   !.result = IF HandshakeHit(q, chunk) THEN buffer ELSE @]

\* dataListener of getBestMove: on a bestmove line in the chunk the
\* listener is removed from stdout and resolve is called (which does
\* nothing to a promise already rejected)
HearSearch(q, chunk, from) ==
    IF Includes(chunk, ExpectedOf(q.command))
      THEN [q EXCEPT !.heard = @ \cup {from},
                     !.raw = IF Pending(q) THEN @ \o chunk ELSE @,
                     !.attached = FALSE,
                     !.pc = IF Pending(q) THEN "resolved" ELSE @,
                     !.result = IF Pending(q) THEN ExpectedOf(q.command) ELSE @]
      ELSE [q EXCEPT !.heard = @ \cup {from},
                     !.raw = IF Pending(q) THEN @ \o chunk ELSE @]

Hear(q, chunk, from) ==
    IF ~q.attached THEN q
    ELSE IF q.command = "go" THEN HearSearch(q, chunk, from)
    ELSE HearHandshake(q, chunk, from)

\* the session goes on after request r: the handshake went through, or a
\* search ended either way
Settles(q) == q.pc = "resolved" \/ (q.command = "go" /\ q.pc = "failed")

\* sendCommandAndAwaitResponse / getBestMove up to the write of the
\* command: the listener is put on stdout, the timer is started
Send(r) ==
    /\ calls[r].op = "none"
    /\ IF r = 1 THEN TRUE ELSE Settles(calls[r - 1])
    /\ procs[1].alive
    /\ calls' = [calls EXCEPT ![r] =
                   [NoRequest EXCEPT !.op = "request", !.command = CommandOf(r),
                                     !.pc = IF CommandOf(r) = "go" THEN "searching"
                                            ELSE "waiting",
                                     !.attached = TRUE]]
    /\ UNCHANGED <<procs, stockfishProcesses, activeGames, db>>

\* the requests whose answer the engine has not printed to the end
Unanswered == {r \in DOMAIN calls :
                  calls[r].op = "request" /\ calls[r].pos < Len(OutputOf(calls[r].command))}

\* the request the engine is answering: the earliest unanswered one
Answering == CHOOSE r \in Unanswered : \A q \in Unanswered : r <= q

\* stdout emits 'data': the next characters of the engine's output, cut
\* anywhere, are given to every listener on stdout
Data ==
    /\ procs[1].alive
    /\ Unanswered # {}
    /\ LET from == Answering
           out == OutputOf(calls[from].command)
       IN  \E n \in 1..(Len(out) - calls[from].pos) :
              LET chunk == SubSeq(out, calls[from].pos + 1, calls[from].pos + n) IN
              calls' = [q \in DOMAIN calls |->
                          Hear(IF q = from THEN [calls[q] EXCEPT !.pos = @ + n]
                               ELSE calls[q], chunk, from)]
    /\ UNCHANGED <<procs, stockfishProcesses, activeGames, db>>

\* the 10 s timer of a handshake request fires: removeListener on
\* engineProcess (the listener stays on stdout), reject; the catch block of
\* initializeEngine kills the process and deletes the registry entry
RequestTimeout(r) ==
    /\ calls[r].pc = "waiting"
    /\ calls' = [calls EXCEPT ![r].pc = "failed"]
    /\ procs' = CatchProcs(procs, stockfishProcesses, "g1")
    /\ stockfishProcesses' = CatchRegistry(stockfishProcesses, "g1")
    /\ UNCHANGED <<activeGames, db>>

\* (mutant) a deadline that rejects at once
AfterDeadlineNoGrace(q) == [q EXCEPT !.pc = "failed"]

\* the 15 s timer of a search: 'stop' is written and the 0.5 s timer started
AfterDeadline(q) == [q EXCEPT !.pc = "grace", !.graceTimer = TRUE]

\* the 15 s timer of a search fires (a resolved search has cleared it)
Deadline(r) ==
    /\ calls[r].pc = "searching"
    /\ calls' = [calls EXCEPT ![r] = AfterDeadline(@)]
    /\ UNCHANGED <<procs, stockfishProcesses, activeGames, db>>

\* the 0.5 s timer fires: reject, which does nothing to a promise resolved
\* in the meantime; the listener is left on stdout
GraceExpires(r) ==
    /\ calls[r].graceTimer
    /\ calls' = [calls EXCEPT ![r].graceTimer = FALSE,
                              ![r].pc = IF @ = "grace" THEN "failed" ELSE @]
    /\ UNCHANGED <<procs, stockfishProcesses, activeGames, db>>

\* the engine process of game g1 spawned and registered, no request made
InitSession ==
    /\ procs = <<[owner |-> "g1", alive |-> TRUE]>>
    /\ stockfishProcesses = [g \in GameIds |-> IF g = "g1" THEN 1 ELSE 0]
    /\ activeGames = [g \in GameIds |-> NoGame]
    /\ db = [g \in GameIds |-> NoDoc]
    /\ calls = [r \in RequestIds |-> NoRequest]

NextSession ==
    \/ \E r \in RequestIds : Send(r)
    \/ Data
    \/ \E r \in RequestIds : RequestTimeout(r)
    \/ \E r \in RequestIds : Deadline(r)
    \/ \E r \in RequestIds : GraceExpires(r)

\* the requests on one engine session
SpecSession == InitSession /\ [][NextSession]_vars

\* the same with the timers of a search firing in the end
SpecSessionTimed ==
    /\ SpecSession
    /\ \A r \in RequestIds : WF_vars(Deadline(r)) /\ WF_vars(GraceExpires(r))

(***************************************************************************)
(* stockfishService.js: getBestMove, its dataListener on what the engine   *)
(* prints to a search.  The engine prints an optional progress line and    *)
(* the bestmove line, the move with or without a promotion letter, with    *)
(* or without the ponder part; the output reaches the listener in chunks   *)
(* cut anywhere.  A four-character move is the character "e", the          *)
(* promotion letter "q", the word `bestmove` the characters "b" "m", the   *)
(* progress line `info ... score cp 35` the characters "i" "s", the word   *)
(* `ponder` the character "p".                                             *)
(***************************************************************************)
\* searches made on the session, one after the other
MaxSearches == 2

SearchIds == 1..MaxSearches

\* `let evaluation = { type: 'cp', value: 0 }`
DefaultEvaluation == [type |-> "cp", value |-> 0]

\* the evaluation of the progress line the engine prints
InfoEvaluation == [type |-> "cp", value |-> 35]

\* what the engine may print in answer to `go`
InfoLines == {<<>>, <<"i", "s", "\n">>}

EngineMoves == {<<"e">>, <<"e", "q">>}

PonderParts == {<<>>, <<"p", "e">>}

BestMoveLine(move, ponderPart) == <<"b", "m">> \o move \o ponderPart \o <<"\n">>

\* dataString.match(/info depth ... score (cp|mate) (-?\d+).../g): the
\* chunk holds a whole progress line up to its score
InfoMatches(chunk) == Includes(chunk, <<"i", "s">>)

\* the places of the chunk where /^bestmove ([a-h][1-8][a-h][1-8])/m
\* matches: at the start of a line, the word and four characters of a move
BestMoveMatches(chunk) ==
    {k \in 1..(Len(chunk) - 2) :
        /\ k = 1 \/ chunk[k - 1] = "\n"
        /\ SubSeq(chunk, k, k + 2) = <<"b", "m", "e">>}

\* bestMoveMatch[1]: the four characters, whatever follows them
MatchedMove(chunk) == <<"e">>

\* bestMoveMatch[2]: the optional group `(?: ([a-h][1-8][a-h][1-8]))?`, a
\* move right after the first one; anything else leaves it undefined
MatchedPonder(chunk) ==
    LET k == CHOOSE j \in BestMoveMatches(chunk) : \A h \in BestMoveMatches(chunk) : j <= h IN
    IF k + 3 <= Len(chunk) /\ chunk[k + 3] = "e" THEN <<"e">> ELSE <<>>

\* a search not made yet.  info, move, out: what the engine answers;
\* pos: how much of it the engine has printed; raw: the chunks the
\* listener got while attached
NoSearch == [op |-> "none", pc |-> "idle", info |-> <<>>, move |-> <<>>, out |-> <<>>,
             pos |-> 0, attached |-> FALSE, graceTimer |-> FALSE, raw |-> <<>>,
             evaluation |-> DefaultEvaluation, bestMove |-> <<>>, ponder |-> <<>>,
             result |-> [present |-> FALSE]]

\* dataListener of getBestMove called with a chunk
SearchListener(q, chunk) ==
    LET evaluation == IF InfoMatches(chunk) THEN InfoEvaluation ELSE q.evaluation
        heard == [q EXCEPT !.raw = @ \o chunk, !.evaluation = evaluation]
    IN  IF ~q.attached THEN q
        ELSE IF BestMoveMatches(chunk) = {} THEN heard
        ELSE [heard EXCEPT !.bestMove = MatchedMove(chunk),
                           !.ponder = MatchedPonder(chunk),
                           !.attached = FALSE,
                           !.graceTimer = IF q.pc = "searching" THEN FALSE ELSE @,
                           !.pc = IF q.pc \in {"searching", "grace"} THEN "resolved" ELSE @,
                           !.result = IF q.pc \in {"searching", "grace"}
                                        THEN [present |-> TRUE, bestMove |-> MatchedMove(chunk),
                                              ponder |-> MatchedPonder(chunk),
                                              evaluation |-> evaluation]
                                        ELSE @]

\* getBestMove up to the write of the search command; the caller makes the
\* next search when this one has settled
GetBestMove(r, info, move, ponderPart) ==
    /\ calls[r].op = "none"
    /\ IF r = 1 THEN TRUE ELSE calls[r - 1].pc \in {"resolved", "failed"}
    /\ procs[1].alive
    /\ calls' = [calls EXCEPT ![r] =
                   [NoSearch EXCEPT !.op = "search", !.pc = "searching", !.attached = TRUE,
                                    !.info = info, !.move = move,
                                    !.out = info \o BestMoveLine(move, ponderPart)]]
    /\ UNCHANGED <<procs, stockfishProcesses, activeGames, db>>

\* the searches whose answer the engine has not printed to the end
UnansweredSearches == {r \in DOMAIN calls : calls[r].op = "search" /\ calls[r].pos < Len(calls[r].out)}

\* stdout emits 'data' during a search: the next characters of the
\* engine's output, cut anywhere, are given to every listener on stdout
SearchData ==
    /\ procs[1].alive
    /\ UnansweredSearches # {}
    /\ LET from == CHOOSE r \in UnansweredSearches : \A q \in UnansweredSearches : r <= q
           out == calls[from].out
       IN  \E n \in 1..(Len(out) - calls[from].pos) :
              LET chunk == SubSeq(out, calls[from].pos + 1, calls[from].pos + n) IN
              calls' = [q \in DOMAIN calls |->
                          SearchListener(IF q = from THEN [calls[q] EXCEPT !.pos = @ + n]
                                         ELSE calls[q], chunk)]
    /\ UNCHANGED <<procs, stockfishProcesses, activeGames, db>>

\* the engine process of game g1 initialised and registered, no search made
InitSearch ==
    /\ procs = <<[owner |-> "g1", alive |-> TRUE]>>
    /\ stockfishProcesses = [g \in GameIds |-> IF g = "g1" THEN 1 ELSE 0]
    /\ activeGames = [g \in GameIds |-> NoGame]
    /\ db = [g \in GameIds |-> NoDoc]
    /\ calls = [r \in SearchIds |-> NoSearch]

NextSearch ==
    \/ \E r \in SearchIds, info \in InfoLines, move \in EngineMoves, ponderPart \in PonderParts :
          GetBestMove(r, info, move, ponderPart)
    \/ SearchData
    \/ \E r \in SearchIds : Deadline(r)
    \/ \E r \in SearchIds : GraceExpires(r)

\* the searches on one engine session
SpecSearch == InitSearch /\ [][NextSearch]_vars

(***************************************************************************)
(* Claims about the engine service                                         *)
(***************************************************************************)
IsInitCall(c) == calls[c].op = "initializeEngine"

C1_Inv ==
    /\ \A g \in GameIds : Cardinality(LiveOf(g)) <= 1
    /\ \A p \in Pids, q \in Pids :
          procs[p].owner = procs[q].owner /\ p < q => ~procs[p].alive

C1_Start ==
    \A c \in DOMAIN calls :
        ~IsInitCall(c) /\ IsInitCall(c)' =>
            LET g == calls'[c].g IN
            /\ {p \in 1..Len(procs') : procs'[p].owner = g /\ procs'[p].alive}
                  = {calls'[c].proc}
            /\ stockfishProcesses'[g] = calls'[c].proc
            /\ \A p \in Pids : procs[p].owner = g => ~procs'[p].alive

\* C1: in every reachable state at most one engine process per gameId is
\* live, and it is the one spawned last; every initializeEngine call leaves
\* exactly one live process for its gameId, the one it spawned, every
\* process spawned earlier for that gameId being killed.
C1_AtMostOneLivePerGame == [](C1_Inv) /\ [][C1_Start]_vars

\* two initializeEngine calls on one gameId in succession: the first call's
\* process is killed and the second call's is the only live one
C1_Witness ==
    \E c \in DOMAIN calls, d \in DOMAIN calls :
        /\ IsInitCall(c) /\ IsInitCall(d) /\ c < d
        /\ calls[c].g = calls[d].g
        /\ calls[c].pc = "done"
        /\ ~procs[calls[c].proc].alive
        /\ LiveOf(calls[d].g) = {calls[d].proc}

InHandshake(c) == calls[c].pc \in {"uci", "ready1", "ready2"}

\* C2: the step in which a handshake step of initializeEngine fails leaves
\* the call failed with the generic error, no registry entry for its gameId,
\* and the process the call spawned killed.
C2_HandshakeFailureCleansUp ==
    [][\A c \in DOMAIN calls :
          IsInitCall(c) /\ InHandshake(c) /\ calls'[c].pc = "failed" =>
              /\ calls'[c].err = ErrInitFailed
              /\ stockfishProcesses'[calls[c].g] = 0
              /\ ~procs'[calls[c].proc].alive]_vars

\* a call whose 'uci' request timed out while its process was still running
C2_Witness ==
    \E c \in DOMAIN calls :
        /\ IsInitCall(c)
        /\ calls[c].pc = "failed"
        /\ calls[c].cause = ErrTimeoutUci
        /\ calls[c].killedOwn

\* C3: the lookup gives every level 1..10 a non-empty option list and a
\* search command, and a call with a level outside 1..10 fails with the
\* validation error without ever spawning a process.
C3_InvalidLevelSpawnsNothing ==
    /\ \A l \in 1..10 :
          /\ HasConfig(l)
          /\ Len(getStockfishOptionsForDifficulty(l).options) > 0
          /\ Len(getStockfishOptionsForDifficulty(l).searchParams) > 0
    /\ \A c \in DOMAIN calls :
          IsInitCall(c) /\ ~HasConfig(calls[c].level) =>
              /\ calls[c].proc = 0
              /\ calls[c].pc = "failed"
              /\ calls[c].err = ErrInvalidLevel

(***************************************************************************)
(* Claims about the game service                                           *)
(***************************************************************************)
IsMakeMove(c) == calls[c].op = "makeMove"

IsCreateGame(c) == calls[c].op = "createGame"

\* C4: a makeMove call that has failed has played no move on the in-memory
\* board of its game, so that the board is as it was before the call and
\* the same human move can be submitted again (the persisted record is
\* written by the save that ends a successful call only).
C4_FailedMoveLeavesGameUnchanged ==
    \A c \in DOMAIN calls :
        IsMakeMove(c) /\ calls[c].pc = "failed" => calls[c].pushed = <<>>

\* C5: after a createGame call has failed in engine initialization there
\* is no persisted record of its game in status 'playing', no activeGames
\* entry, no registry session and no live engine process for its gameId.
C5_FailedInitCreatesNoGame ==
    \A c \in DOMAIN calls :
        IsCreateGame(c) /\ calls[c].pc = "failed" /\ calls[c].err = ErrInitFailed =>
            LET g == calls[c].g IN
            /\ ~(db[g].present /\ db[g].status = "playing")
            /\ ~activeGames[g].present
            /\ stockfishProcesses[g] = 0
            /\ LiveOf(g) = {}

(***************************************************************************)
(* Claims about analyzeGame                                                *)
(***************************************************************************)
IsAnalyzeGame(c) == calls[c].op = "analyzeGame"

EngineErrors == {ErrTimeoutUci, ErrTimeoutIsReady, ErrAnalysisTimeout}

\* C6: an analyzeGame call whose replay stopped at a move the rules engine
\* refused does not return successfully, and the update it makes with the
\* entries of the earlier plies does not mark the game 'finished'.
C6_BrokenReplayIsSurfaced ==
    \A c \in DOMAIN calls :
        IsAnalyzeGame(c) /\ calls[c].brokeAt # 0 =>
            /\ calls[c].pc # "done"
            /\ calls[c].pc = "ag_read" => db[calls[c].g].status # "finished"

\* C7: after an analyzeGame call has failed in a one-off position analysis
\* (handshake or search timeout) the persisted status of its game is
\* 'finished' again, so that a later call is accepted.
C7_FailedAnalysisRestoresStatus ==
    \A c \in DOMAIN calls :
        IsAnalyzeGame(c) /\ calls[c].pc = "failed" /\ calls[c].err \in EngineErrors =>
            db[calls[c].g].status = "finished"

\* C8: an analyzeGame call that begins after another call on its game has
\* returned successfully makes no engine invocation, never gets past the
\* lookup of the stored analysis, and returns the stored record as it is.
C8_AnalyzeIsIdempotent ==
    \A c \in DOMAIN calls :
        IsAnalyzeGame(c) /\ calls[c].later =>
            /\ calls[c].inv = 0
            /\ calls[c].pc \in {"ag_find", "done"}
            /\ calls[c].pc = "done" => calls[c].ret = db[calls[c].g]

\* the game a call names is missing or its persisted status is not 'finished'
NotAnalyzable(g) == ~db[g].present \/ db[g].status # "finished"

RejectionErrors == {ErrAnalyzeNotFound, ErrNotFinished}

C9_Inv ==
    \A c \in DOMAIN calls :
        IsAnalyzeGame(c) /\ calls[c].pc = "failed" /\ calls[c].err \in RejectionErrors =>
            calls[c].inv = 0

C9_Step ==
    \A c \in DOMAIN calls :
        /\ IsAnalyzeGame(c)
        /\ calls[c].pc = "ag_find"
        /\ calls'[c].pc # "ag_find"
        /\ NotAnalyzable(calls[c].g)
        => /\ calls'[c].pc = "failed"
           /\ calls'[c].err \in RejectionErrors
           /\ procs' = procs
           /\ db' = db

\* C9: the step in which analyzeGame has looked up a game that is missing
\* or whose persisted status is not 'finished' (playing, analyzing,
\* terminated) fails the call with an error, spawns no process and leaves
\* the persisted records as they are; a call rejected so has made no
\* engine invocation.
C9_UnfinishedGameIsRejected == [](C9_Inv) /\ [][C9_Step]_vars

\* one call rejected for a missing game and one for a game being analyzed,
\* no process ever spawned
C9_Witness ==
    /\ procs = <<>>
    /\ \E c \in DOMAIN calls :
          /\ IsAnalyzeGame(c) /\ calls[c].pc = "failed"
          /\ calls[c].err = ErrAnalyzeNotFound
          /\ ~db[calls[c].g].present
    /\ \E c \in DOMAIN calls :
          /\ IsAnalyzeGame(c) /\ calls[c].pc = "failed"
          /\ calls[c].err = ErrNotFinished
          /\ db[calls[c].g].present
          /\ db[calls[c].g].status = "analyzing"

\* the stored game a call names has no recorded move
ZeroMoves(g) == db[g].present /\ db[g].moves = <<>>

\* C10: an analyzeGame call on a stored game with zero recorded moves
\* invokes the position analysis at most once and produces no entry; when
\* it has made its update it has invoked the analysis exactly once (the
\* baseline) and the record is 'finished' with an empty analysis; and the
\* document it returns is 'finished' with an empty analysis.
C10_ZeroMovesBaselineOnly ==
    \A c \in DOMAIN calls :
        IsAnalyzeGame(c) /\ ZeroMoves(calls[c].g) =>
            /\ calls[c].inv <= 1
            /\ calls[c].entries = <<>>
            /\ calls[c].brokeAt = 0
            /\ calls[c].pc \in {"ag_update", "ag_read", "done"} => calls[c].inv = 1
            /\ calls[c].pc = "ag_read" =>
                  /\ db[calls[c].g].status = "finished"
                  /\ db[calls[c].g].analysis = <<>>
            /\ calls[c].pc = "done" =>
                  /\ calls[c].ret.status = "finished"
                  /\ calls[c].ret.analysis = <<>>

\* a call on a finished game with no move has returned after one analysis
C10_Witness ==
    \E c \in DOMAIN calls :
        /\ IsAnalyzeGame(c) /\ ZeroMoves(calls[c].g)
        /\ calls[c].pc = "done"
        /\ calls[c].inv = 1
        /\ calls[c].ret.status = "finished"
        /\ calls[c].ret.analysis = <<>>

\* a stored game g1 as in InitAnalyze, beside a game g2 in play with its
\* engine session registered and live
InitAnalyzeBeside ==
    /\ procs = <<[owner |-> "g2", alive |-> TRUE]>>
    /\ stockfishProcesses = [g \in GameIds |-> IF g = "g2" THEN 1 ELSE 0]
    /\ activeGames = [g \in GameIds |->
                        IF g = "g2" THEN [present |-> TRUE, chess |-> InitialPosition,
                                          humanColor |-> "white", difficulty |-> 5]
                        ELSE NoGame]
    /\ \E doc \in StoredGames :
          db = [g \in GameIds |-> IF g = "g1" THEN doc ELSE NewGameDoc(5, "white")]
    /\ calls = [c \in AnalyzeCallIds |-> NoCall]

NextAnalyzeBeside ==
    \/ NextAnalyze
    \/ \E g \in GameIds : TerminateEngine(g)

\* analyzeGame running while a game is live
SpecAnalyzeBeside == InitAnalyzeBeside /\ [][NextAnalyzeBeside]_vars

(***************************************************************************)
(* analyzeGame: the classification of the plies.  The for loop of          *)
(* analyzeGame on games of one or two plies, the engine's answers being    *)
(* handed to it: every kind of evaluation the `info ... score (cp|mate) N` *)
(* line can carry, on both sides of the two thresholds.                    *)
(***************************************************************************)
\* `score cp N`: the values around the thresholds, and a won position as
\* the engine scores it with tablebases (cp 20000)
CpInputs == {-400, 0, 120, 150, 151, 300, 301, 420, 20000}

\* `score mate N`: mating (N > 0) and being mated (N < 0)
MateInputs == {-2, -1, 1, 2, 3}

EvaluationDomain ==
    {[type |-> "cp", value |-> v] : v \in CpInputs}
       \cup {[type |-> "mate", value |-> v] : v \in MateInputs}

\* recorded move lists of one ply, and of two plies after an ordinary first
PlyLists == {<<m>> : m \in Moves} \cup {<<"ok", m>> : m \in Moves}

ClassifiedGames ==
    {[present |-> TRUE, status |-> "analyzing", result |-> "*", moves |-> ms,
      fen |-> Replay(InitialPosition, ms), humanColor |-> color, difficulty |-> 5,
      analysis |-> <<>>] : ms \in PlyLists, color \in Colors}

\* the loop runs from the ply after i until it needs the engine for the
\* position after a ply, or ends
LoopRun(c) ==
    /\ calls[c].pc = "loop"
    /\ LET me == calls[c]
           r == AnalysisLoop(me.doc.moves, me.doc.humanColor, me.i + 1, me.chess,
                             me.cur, me.entries)
       IN  calls' = [calls EXCEPT ![c].i = r.i, ![c].chess = r.chess,
                                  ![c].cur = r.cur, ![c].entries = r.entries,
                                  ![c].brokeAt = r.brokeAt,
                                  ![c].pc = IF r.next = "analyze" THEN "await"
                                            ELSE "persist"]
    /\ UNCHANGED <<procs, stockfishProcesses, activeGames, db>>

\* analyzePosition resolves for the position after ply i: the ply's entry
\* is pushed and the analysis becomes currentAnalysis
LoopAnalyzed(c, evaluation, bestMove) ==
    /\ calls[c].pc = "await"
    /\ LET me == calls[c] IN
       calls' = [calls EXCEPT
                   ![c].entries = Append(me.entries,
                        AnalysisEntry(me.i, Before(me.chess), me.chess,
                                      me.doc.moves[me.i], me.doc.humanColor,
                                      me.cur, evaluation)),
                   ![c].cur = [evaluation |-> evaluation, bestMove |-> bestMove],
                   ![c].inv = @ + 1,
                   ![c].pc = "loop"]
    /\ UNCHANGED <<procs, stockfishProcesses, activeGames, db>>

\* analyzeGame at the head of its loop, the baseline analysis made
InitClassify ==
    /\ procs = <<>>
    /\ stockfishProcesses = [g \in GameIds |-> 0]
    /\ activeGames = [g \in GameIds |-> NoGame]
    /\ \E doc \in ClassifiedGames, evaluation \in EvaluationDomain :
          /\ db = [g \in GameIds |-> IF g = "g1" THEN doc ELSE NoDoc]
          /\ calls = <<[NoCall EXCEPT !.op = "analyzeGame", !.pc = "loop",
                          !.g = "g1", !.doc = doc, !.inv = 1,
                          !.chess = InitialPosition,
                          !.cur = [evaluation |-> evaluation, bestMove |-> "e2e4"]]>>

NextClassify ==
    \/ \E c \in DOMAIN calls : LoopRun(c)
    \/ \E c \in DOMAIN calls, evaluation \in EvaluationDomain, bestMove \in BestMoveInputs :
          LoopAnalyzed(c, evaluation, bestMove)

\* the loop of analyzeGame on the evaluations handed to it
SpecClassify == InitClassify /\ [][NextClassify]_vars

(***************************************************************************)
(* Claims about the classification                                         *)
(***************************************************************************)
\* the plies a call has pushed an entry for
PliesOf(c) == 1..Len(calls[c].entries)

\* the pre-move evaluation of ply k, as its entry stores it
EvalStart(c, k) == calls[c].entries[k].evaluation

\* the post-move evaluation of ply k: the pre-move evaluation of the next
\* ply, or currentAnalysis for the last ply pushed
EvalAfter(c, k) ==
    IF k < Len(calls[c].entries) THEN calls[c].entries[k + 1].evaluation
    ELSE calls[c].cur.evaluation

\* ply k was played by the human player
HumanPly(c, k) == calls[c].entries[k].color = calls[c].doc.humanColor

\* ply k ended the game by checkmate
MatingPly(c, k) == calls[c].entries[k].fen.over = "checkmate"

Flagged(c, k) == calls[c].entries[k].isMistake \/ calls[c].entries[k].isBlunder

\* C11: a ply of the human player that gives checkmate has neither flag,
\* whatever the evaluation before it, its post-move evaluation being the
\* synthesized mate-in-0.
C11_MatingPlyNeverFlagged ==
    \A c \in DOMAIN calls : \A k \in PliesOf(c) :
        HumanPly(c, k) /\ MatingPly(c, k) =>
            /\ EvalAfter(c, k) = [type |-> "mate", value |-> 0]
            /\ ~Flagged(c, k)

\* the drop of ply k on the common scale: the pre-move advantage less the
\* sign-flipped post-move evaluation
Drop(c, k) == getCpValue(EvalStart(c, k)) + getCpValue(EvalAfter(c, k))

\* the pre-move position had a forced mate and the post-move one has none
MissedMate(c, k) == EvalStart(c, k).type = "mate" /\ EvalAfter(c, k).type # "mate"

cp(v) == [type |-> "cp", value |-> v]

\* the boundary cases: drops of 150, 151, 300, 301 and 540
C12_Boundaries ==
    /\ ~Quality(TRUE, cp(0), cp(150)).isMistake
    /\ ~Quality(TRUE, cp(0), cp(150)).isBlunder
    /\ Quality(TRUE, cp(0), cp(151)).isMistake
    /\ Quality(TRUE, cp(0), cp(300)).isMistake
    /\ ~Quality(TRUE, cp(0), cp(300)).isBlunder
    /\ Quality(TRUE, cp(0), cp(301)).isBlunder
    /\ Quality(TRUE, cp(120), cp(420)).isBlunder

C13_MissedMateIsMistake ==
    \A c \in DOMAIN calls : \A k \in PliesOf(c) :
        /\ HumanPly(c, k)
        /\ EvalStart(c, k).type = "mate"
        /\ EvalAfter(c, k).type = "cp"
        => calls[c].entries[k].isMistake

\* the evaluations a call holds: the stored pre-move ones and currentAnalysis
EvaluationsOf(c) == {calls[c].cur.evaluation} \cup {EvalStart(c, k) : k \in PliesOf(c)}

ForcedMate(e) == e.type = "mate" /\ e.value # 0

\* C14: of two forced mates of the same sign the one with fewer moves maps
\* to the strictly larger magnitude, and every forced mate maps to a
\* magnitude strictly above that of every centipawn evaluation.
C14_MateScaleDominates ==
    \A c \in DOMAIN calls : \A a \in EvaluationsOf(c), b \in EvaluationsOf(c) :
        /\ ForcedMate(a) /\ ForcedMate(b) /\ Sign(a.value) = Sign(b.value)
              /\ Abs(a.value) < Abs(b.value)
              => Abs(getCpValue(a)) > Abs(getCpValue(b))
        /\ ForcedMate(a) /\ b.type = "cp" => Abs(getCpValue(a)) > Abs(getCpValue(b))

(***************************************************************************)
(* Claims about the requests on a session                                  *)
(***************************************************************************)
IsHandshake(r) == calls[r].op = "request" /\ calls[r].command # "go"

IsSearch(r) == calls[r].op = "request" /\ calls[r].command = "go"

\* C15: a handshake request is resolved as soon as the output its listener
\* has accumulated contains the terminator, however the output is cut into
\* chunks, and it is resolved with all it has accumulated.
C15_ResolvesOnAccumulatedOutput ==
    \A r \in DOMAIN calls :
        IsHandshake(r) =>
            /\ calls[r].pc = "waiting" =>
                  ~Includes(calls[r].raw, ExpectedOf(calls[r].command))
            /\ calls[r].pc = "resolved" => calls[r].result = calls[r].responseBuffer

\* the requests whose listener is on stdout
Attached == {r \in DOMAIN calls : calls[r].attached}

\* the requests in flight
InFlight == {r \in DOMAIN calls : calls[r].op = "request" /\ Pending(calls[r])}

\* C16: the listeners on the session's stdout are those of the requests in
\* flight (none or one), and no listener is called with the answer to a
\* request made after its own.
C16_ListenersAreDetached ==
    /\ Attached = InFlight
    /\ Cardinality(Attached) <= 1
    /\ \A r \in DOMAIN calls : \A from \in calls[r].heard : from <= r

\* the chunk a listener was called with in a step, while its request was pending
ChunkHeard(r) == SubSeq(calls'[r].raw, Len(calls[r].raw) + 1, Len(calls'[r].raw))

C17_Step ==
    \A r \in DOMAIN calls :
        IsSearch(r) =>
            /\ calls[r].pc = "searching" => calls'[r].pc \in {"searching", "grace", "resolved"}
            /\ calls[r].pc = "searching" /\ calls'[r].pc = "grace" => calls'[r].graceTimer
            /\ calls[r].pc = "grace" /\ Includes(ChunkHeard(r), ExpectedOf("go"))
                  => calls'[r].pc = "resolved" /\ calls'[r].result = ExpectedOf("go")
            /\ calls[r].pc = "grace" /\ calls'[r].pc = "failed"
                  => calls[r].graceTimer /\ ~calls'[r].graceTimer
            /\ calls[r].pc \in {"resolved", "failed"} => calls'[r].pc = calls[r].pc

InSearch(c) == calls[c].pc \in {"cg_search", "mm_search"}

\* C18: the step in which a best-move search ends in the timeout failure
\* kills no process and leaves the registry as it is.
C18_SearchTimeoutKeepsSession ==
    [][\A c \in DOMAIN calls :
          InSearch(c) /\ calls'[c].pc = "failed" /\ calls'[c].err = ErrSearchTimeout =>
              /\ procs' = procs
              /\ stockfishProcesses' = stockfishProcesses]_vars

\* a search has timed out and the session of its game is registered and live
C18_Witness ==
    \E c \in DOMAIN calls :
        /\ calls[c].pc = "failed" /\ calls[c].err = ErrSearchTimeout
        /\ stockfishProcesses[calls[c].g] # 0
        /\ procs[stockfishProcesses[calls[c].g]].alive

\* the calls with a request outstanding on the registered session of game
\* g: a handshake command of initializeEngine or a search of getBestMove
Outstanding(g) ==
    {c \in DOMAIN calls :
        /\ calls[c].g = g
        /\ calls[c].pc \in {"uci", "ready1", "ready2", "cg_search", "mm_search"}
        /\ stockfishProcesses[g] # 0
        /\ calls[c].proc = stockfishProcesses[g]}

InAnalyzePosition(c) == calls[c].pc \in {"ap_uci", "ap_ready", "ap_go"}

\* the transient processes
Transient == {p \in Pids : procs[p].owner = "analysis"}

\* every live transient process is the one of an analyzePosition call in
\* progress, and no session is registered on a transient process
C20_Inv ==
    /\ \A p \in Transient :
          procs[p].alive =>
              \E c \in DOMAIN calls : InAnalyzePosition(c) /\ calls[c].proc = p
    /\ \A g \in GameIds : stockfishProcesses[g] \notin Transient

\* a step of an analyzeGame call leaves the registry and the processes of
\* the sessions as they are, and an analyzePosition call that begins runs
\* on a process spawned in that step
C20_Step ==
    \A c \in DOMAIN calls :
        calls'[c] # calls[c] =>
            /\ stockfishProcesses' = stockfishProcesses
            /\ \A p \in Pids \ Transient : procs'[p] = procs[p]
            /\ calls'[c].inv # calls[c].inv =>
                  /\ calls'[c].proc = Len(procs) + 1
                  /\ Len(procs') = Len(procs) + 1
                  /\ procs'[calls'[c].proc].owner = "analysis"

\* C20: every analyzePosition call runs on a transient process of its own,
\* which is dead when the call has settled (bestmove, 30 s timeout or
\* handshake failure), and no step of the analysis reads or changes the
\* registry of the game sessions or the processes registered in it.
C20_TransientEngineOnly == [](C20_Inv) /\ [][C20_Step]_vars

\* an analysis has returned after at least two position analyses, all its
\* transient processes are dead, and the session of the live game is
\* registered and live as before
C20_Witness ==
    /\ \E c \in DOMAIN calls : IsAnalyzeGame(c) /\ calls[c].pc = "done" /\ calls[c].inv >= 2
    /\ \A p \in Transient : ~procs[p].alive
    /\ stockfishProcesses["g2"] = 1
    /\ procs[1].alive

(***************************************************************************)
(* Claims about terminateEngine                                            *)
(***************************************************************************)
\* terminateEngine(g) run on the state at hand, and run again on its outcome
C21_Inv ==
    \A g \in GameIds :
        LET ps == TerminateProcs(procs, stockfishProcesses, g)
            reg == TerminateRegistry(stockfishProcesses, g)
        IN  /\ stockfishProcesses[g] # 0 =>
                  /\ ~ps[stockfishProcesses[g]].alive
                  /\ \A p \in Pids \ {stockfishProcesses[g]} : ps[p] = procs[p]
            /\ stockfishProcesses[g] = 0 => ps = procs /\ reg = stockfishProcesses
            /\ reg[g] = 0
            /\ \A h \in GameIds \ {g} : reg[h] = stockfishProcesses[h]
            /\ TerminateProcs(ps, reg, g) = ps
            /\ TerminateRegistry(reg, g) = reg

\* a step that is no step of an initializeEngine call is a terminateEngine
\* on a gameId with a session: its process is killed, its entry removed,
\* and nothing else changes
C21_Step ==
    calls' = calls =>
        \E g \in GameIds :
            /\ stockfishProcesses[g] # 0
            /\ procs' = Kill(procs, stockfishProcesses[g])
            /\ stockfishProcesses' = [stockfishProcesses EXCEPT ![g] = 0]
            /\ UNCHANGED <<activeGames, db>>

\* C21: terminateEngine on a gameId with a session kills its process and
\* removes its registry entry, leaving the other sessions alone; on a
\* gameId without a session it changes nothing; and a second terminate
\* after the first changes nothing.
C21_TerminateIsIdempotent == [](C21_Inv) /\ [][C21_Step]_vars

\* the session of a call that went through its handshake has been terminated
C21_Witness ==
    \E c \in DOMAIN calls :
        /\ IsInitCall(c) /\ calls[c].pc = "done"
        /\ ~procs[calls[c].proc].alive
        /\ stockfishProcesses[calls[c].g] = 0

(***************************************************************************)
(* Claims about the persisted games                                        *)
(***************************************************************************)
RECURSIVE Replays(_, _)
\* every move of the list can be played in turn from pos
Replays(pos, moves) ==
    IF moves = <<>> THEN TRUE
    ELSE Legal(pos, Head(moves)) /\ Replays(ChessMove(pos, Head(moves)), Tail(moves))

\* C22: the persisted move list of every stored game replays from the
\* initial position, every move being accepted by the rules engine, and
\* yields the persisted position of the game.
C22_MovesReplayToPosition ==
    \A g \in GameIds :
        db[g].present =>
            /\ Replays(InitialPosition, db[g].moves)
            /\ Replay(InitialPosition, db[g].moves) = db[g].fen

(***************************************************************************)
(* Claims about getBestMove's parsing                                      *)
(***************************************************************************)
\* the listener has been given the whole bestmove line of the search
BestMoveLineReceived(q) == q.op = "search" /\ q.raw = q.out

\* C23: a search that is still live when its bestmove line has been
\* received is resolved at that moment, whether or not a progress line came
\* before it and whether or not the line has a ponder part; the result
\* carries the engine's move, and the default evaluation when no progress
\* line was printed.
C23_ResolvesOnBestMoveLine ==
    \A r \in DOMAIN calls :
        /\ BestMoveLineReceived(calls[r]) => calls[r].pc = "resolved"
        /\ calls[r].op = "search" /\ calls[r].pc = "resolved" =>
              /\ calls[r].result.bestMove = calls[r].move
              /\ calls[r].info = <<>> => calls[r].result.evaluation = DefaultEvaluation

(***************************************************************************)
(* Claims about the entries of an analysis                                 *)
(***************************************************************************)
\* the colour that moves at ply i (1-based) of a game
MoverOf(i) == IF i % 2 = 1 THEN "white" ELSE "black"

\* C24: the record returned by a completed analyzeGame has one entry per
\* recorded move, in the order of the moves; entry i (0-based) has
\* moveNumber floor(i/2)+1 and the colour that moved; an entry of a
\* computer ply has no flag and an empty comment; no entry has both flags.
C24_OneEntryPerPly ==
    \A c \in DOMAIN calls :
        IsAnalyzeGame(c) /\ calls[c].pc = "done" =>
            LET entries == calls[c].ret.analysis
                moves == calls[c].ret.moves
            IN  /\ Len(entries) = Len(moves)
                /\ \A i \in DOMAIN entries :
                      /\ entries[i].move = moves[i]
                      /\ entries[i].moveNumber = ((i - 1) \div 2) + 1
                      /\ entries[i].color = MoverOf(i)
                      /\ entries[i].color # calls[c].ret.humanColor =>
                            /\ ~entries[i].isMistake
                            /\ ~entries[i].isBlunder
                            /\ entries[i].comment = ""
                      /\ ~(entries[i].isMistake /\ entries[i].isBlunder)

\* analyzeGame awaits analyzePosition
AwaitsAnalysis(q) == q.pc \in {"ap_uci", "ap_ready", "ap_go"}

\* the entries whose ply led to a position that is not game-over
NotOver(entries) == {k \in DOMAIN entries : ~IsGameOver(entries[k].fen)}

\* the evaluation the claim names for a position that ended the game
Synthesized(pos) ==
    [evaluation |-> IF pos.over = "checkmate" THEN [type |-> "mate", value |-> 0]
                    ELSE [type |-> "cp", value |-> 0],
     bestMove |-> "null"]

C25_Inv ==
    \A c \in DOMAIN calls :
        IsAnalyzeGame(c) =>
            LET me == calls[c] IN
            /\ AwaitsAnalysis(me) =>
                  /\ ~IsGameOver(me.chess)
                  /\ me.inv = 1 + Cardinality(NotOver(me.entries)) + (IF me.i >= 1 THEN 1 ELSE 0)
            /\ me.pc \in {"ag_update", "ag_read"} =>
                  /\ me.inv = 1 + Cardinality(NotOver(me.entries))
                  /\ Len(me.entries) = IF me.brokeAt = 0 THEN Len(me.doc.moves)
                                       ELSE me.brokeAt - 1
                  /\ \A k \in DOMAIN me.entries :
                        IsGameOver(me.entries[k].fen) =>
                            /\ k = Len(me.entries)
                            /\ me.cur = Synthesized(me.entries[k].fen)
            /\ me.pc = "done" =>
                  IF me.inv = 0 THEN me.later /\ AlreadyAnalyzed(me.ret)
                  ELSE me.inv = 1 + Cardinality(NotOver(me.ret.analysis))

C25_Step ==
    \A c \in DOMAIN calls :
        /\ IsAnalyzeGame(c)
        /\ calls[c].pc = "ap_go"
        /\ calls'[c].pc \notin {"ap_go", "failed"}
        => LET me == calls[c]
               nw == calls'[c]
               n == Len(me.entries)
               k == IF me.i >= 1 THEN n + 1 ELSE n
           IN  /\ SubSeq(nw.entries, 1, n) = me.entries
               /\ Len(nw.entries) \in {k, k + 1}
               /\ me.i >= 1 => /\ nw.entries[k].evaluation = me.cur.evaluation
                               /\ nw.entries[k].bestMove = me.cur.bestMove
               /\ \E evaluation \in EvaluationInputs, bestMove \in BestMoveInputs :
                     LET obtained == [evaluation |-> evaluation, bestMove |-> bestMove] IN
                     IF Len(nw.entries) = k
                       THEN nw.cur = obtained
                       ELSE /\ nw.entries[k + 1].evaluation = obtained.evaluation
                            /\ nw.entries[k + 1].bestMove = obtained.bestMove
                            /\ IsGameOver(nw.entries[k + 1].fen)
                            /\ nw.cur = Synthesized(nw.entries[k + 1].fen)
                            /\ nw.inv = me.inv

\* C25: in analyzeGame the analysis of a position is obtained once and
\* handed on: when the analysis of the position after ply i arrives, the
\* entry of ply i gets the evaluation and the recommended move held since
\* the position before it was analysed (the baseline, or the result of ply
\* i-1), and the analysis just obtained is held for ply i+1; a ply that
\* ends the game gets no engine call, its position getting mate 0 (checkmate)
\* or cp 0 (draw); the engine calls made are 1 plus the replayed plies whose
\* position is not game-over.
C25_EvaluationIsChained == [](C25_Inv) /\ [][C25_Step]_vars

\* a two-ply game replayed to the end: the mating second ply got the
\* analysis obtained after the first ply and no engine call
C25_Witness ==
    \E c \in DOMAIN calls :
        /\ IsAnalyzeGame(c) /\ calls[c].pc = "ag_update"
        /\ Len(calls[c].entries) = 2
        /\ calls[c].entries[1].evaluation = [type |-> "cp", value |-> -400]
        /\ calls[c].entries[2].evaluation = [type |-> "mate", value |-> 2]
        /\ calls[c].entries[2].fen.over = "checkmate"
        /\ calls[c].cur.evaluation = [type |-> "mate", value |-> 0]
        /\ calls[c].inv = 2

(***************************************************************************)
(* Claims about the order of the commands of a session                     *)
(***************************************************************************)
\* no search (`position`, `go`) is outstanding on a process whose handshake
\* is still awaited
C26_Inv ==
    \A c, d \in DOMAIN calls :
        InSearch(c) /\ InHandshake(d) => calls[c].proc # calls[d].proc

\* the handshake requests of a call follow one another: uci, isready
\* (after the options), isready (after ucinewgame)
C26_Step ==
    \A c \in DOMAIN calls :
        calls'[c].pc # calls[c].pc =>
            /\ calls'[c].pc = "ready1" => calls[c].pc = "uci"
            /\ calls'[c].pc = "ready2" => calls[c].pc = "ready1"
            /\ calls[c].pc = "uci" => calls'[c].pc \in {"ready1", "failed"}
            /\ calls[c].pc = "ready1" => calls'[c].pc \in {"ready2", "failed"}

Ended(g) ==
    \/ \E c \in DOMAIN calls : IsMakeMove(c) /\ calls[c].g = g /\ calls[c].statusSet
    \/ db[g].present /\ db[g].status = "finished"
    \/ \E c \in DOMAIN calls :
          calls[c].op = "terminateGame" /\ calls[c].g = g /\ calls[c].pc = "done"

C27_Inv ==
    \A g \in GameIds :
        Ended(g) =>
            /\ stockfishProcesses[g] = 0
            /\ ~activeGames[g].present
            /\ \A p \in Pids : procs[p].owner = g => ~procs[p].alive

C27_Step ==
    \A c \in DOMAIN calls :
        /\ calls[c].op = "none"
        /\ calls'[c].op = "makeMove"
        /\ Ended(calls'[c].g)
        => /\ calls'[c].pc = "failed"
           /\ calls'[c].err = ErrGameNotFound
           /\ procs' = procs
           /\ stockfishProcesses' = stockfishProcesses

\* C27: once a makeMove call has ended a game or a terminateGame call on it
\* has completed, the registry has no session and the active-game table no
\* entry for its gameId, every process spawned for it has been killed, and
\* a makeMove made afterwards is rejected at once, spawning nothing.
C27_EndedGameHasNoSession == [](C27_Inv) /\ [][C27_Step]_vars

\* a game ended by a makeMove, its process killed, and a later makeMove on
\* it rejected
C27_Witness ==
    \E g \in GameIds :
        /\ db[g].present /\ db[g].status = "finished"
        /\ \E p \in Pids : procs[p].owner = g /\ ~procs[p].alive
        /\ \E c \in DOMAIN calls :
              /\ IsMakeMove(c) /\ calls[c].g = g
              /\ calls[c].pc = "failed" /\ calls[c].err = ErrGameNotFound

(***************************************************************************)
(* Claims about overlapping initializeEngine calls                         *)
(***************************************************************************)
\* every process ever spawned is the registry's entry of its gameId or
\* has been killed
C28_Inv ==
    \A p \in Pids :
        procs[p].alive => stockfishProcesses[procs[p].owner] = p

\* the failure clean-up of a call touches no process and no registry
\* entry but the call's own
C28_Step ==
    \A c \in DOMAIN calls :
        IsInitCall(c) /\ InHandshake(c) /\ calls'[c].pc = "failed" =>
            /\ \A p \in Pids \ {calls[c].proc} : procs'[p] = procs[p]
            /\ stockfishProcesses[calls[c].g] # calls[c].proc =>
                  stockfishProcesses' = stockfishProcesses

\* C28: when initializeEngine calls for one gameId overlap, the failure
\* clean-up of a call kills and unregisters only the process that call
\* spawned (the failure of the superseded first call leaves the process and
\* the registry entry of the second alone), and every process ever spawned
\* is the registry's entry of its gameId or has been killed.
C28_CleanUpIsOwn == [](C28_Inv) /\ [][C28_Step]_vars

(***************************************************************************)
(* Claims about moves that lose nothing                                    *)
(***************************************************************************)
\* C29: a ply of the human player whose drop (the pre-move advantage less
\* the sign-flipped post-move advantage) is at most 0 has neither flag; in
\* particular a ply that leaves a forced mate against the mover for a
\* position without a mate is not given the 'Missed Mate' mistake.
C29_NoLossNoFlag ==
    \A c \in DOMAIN calls : \A k \in PliesOf(c) :
        HumanPly(c, k) /\ evalDiff(EvalStart(c, k), EvalAfter(c, k)) <= 0 =>
            ~Flagged(c, k)

(***************************************************************************)
(* Claims about the persisted result                                       *)
(***************************************************************************)
Decided == {"1-0", "0-1", "1/2-1/2"}

C30_Inv ==
    \A g \in GameIds :
        db[g].present /\ db[g].status = "finished" => db[g].result \in Decided

C30_Step ==
    \A g \in GameIds :
        db[g].present /\ db[g].result \in Decided => db'[g].result = db[g].result

\* C30: a stored game whose status is 'finished' has a decided result
\* ('1-0', '0-1' or '1/2-1/2'), and a decided result, once stored, is not
\* changed by any later call.
C30_ResultIsFinal == [](C30_Inv) /\ [][C30_Step]_vars

(***************************************************************************)
(* Claims about overlapping analyzeGame calls                              *)
(***************************************************************************)
\* the call has passed the status check and has not settled: it saves
\* 'analyzing', analyses positions, or writes and reads back the analysis
InAnalysisRun(c) ==
    /\ IsAnalyzeGame(c)
    /\ calls[c].pc \in {"ag_save", "ap_uci", "ap_ready", "ap_go", "ag_update", "ag_read"}

\* C31: of the analyzeGame calls in progress on one game at most one has
\* passed the status check, so that at most one of two overlapping calls
\* invokes the engine and writes the stored analysis.
C31_OneAnalysisRunPerGame ==
    \A g \in GameIds :
        Cardinality({c \in DOMAIN calls : InAnalysisRun(c) /\ calls[c].g = g}) <= 1

====
